---- MODULE Spec2Model ----
(***************************************************************************)
(* Boundary Aligned Remesh (boundary_alinged_remesh.py).                   *)
(*                                                                         *)
(* A mesh is a record                                                      *)
(*   verts : set of vertex ids          co   : position of each vertex     *)
(*   vsel  : select flag of each vertex next : first unused vertex id      *)
(*   edges : sequence (mesh edge order) of [verts : {a, b}, select]        *)
(*   faces : sequence of [verts : cyclic sequence of vertex ids, select]   *)
(* Positions are integer vectors <<x, y, z>> in units of the weld distance *)
(* of line 204; the input meshes lie in the plane z = 0.                   *)
(* The bmesh operators are modelled by their effect on this structure.     *)
(***************************************************************************)
EXTENDS Integers, Sequences, FiniteSets, TLC

VARIABLES
    pc,            \* position in Remesher.execute / remesh / enforce_edge_length
    obj_data,      \* obj.data, the caller's persistent mesh
    edit_mode,     \* self.edit_mode
    bm,            \* self.bm, the working mesh
    bm1,           \* self.bm1, the remainder in partial-region mode (NoMesh = None)
    bvh,           \* self.bvh, the snapshot of bm taken at construction
    boundary_data, \* self.boundary_data
    edge_length,   \* remesh(edge_length=...)
    iterations,    \* remesh(iterations=...)
    quads,         \* remesh(quads=...)
    rule,          \* the local rule of remesh
    it,            \* number of completed iterations of the loop of line 185
    lock_verts,    \* the local lock_verts of enforce_edge_length
    collapse,      \* the local collapse of enforce_edge_length
    error,         \* the exception that ended the run, "none" when there is none
    trace,         \* history: the operators called on the meshes, in order
    align_log,     \* history: what align_verts computed for each vertex it moved
    welded,        \* history: the pairs of vertices remove_doubles fused, and
                   \*   whether each was on the border the two meshes share
    input          \* history: the meshes at construction and the caller's mesh

vars == <<pc, obj_data, edit_mode, bm, bm1, bvh, boundary_data, edge_length,
          iterations, quads, rule, it, lock_verts, collapse, error, trace,
          align_log, welded, input>>

----------------------------------------------------------------------------
(* Bounds of the model *)

MaxIter == 2        \* iterations is drawn from 0..MaxIter
MaxLength == 3      \* edge_length is drawn from 0..MaxLength
GridMax == 4        \* the surface lookup searches the points 0..GridMax squared
MaxVerts == 14      \* subdivision is not modelled beyond this many vertex ids

(* Program constants *)

BiasPerMille == 333 \* bias=0.333, in thousandths
MinValence == 5     \* len(vert.link_edges) < 5
WeldDist == 1       \* dist=0.00001, the unit of length of the model

----------------------------------------------------------------------------
(* Sequences and sets *)

Range(s) == {s[i] : i \in DOMAIN s}

Min(S) == CHOOSE x \in S : \A y \in S : x <= y

Max(S) == CHOOSE x \in S : \A y \in S : x >= y

RECURSIVE SetToSeq(_)
SetToSeq(S) == IF S = {} THEN <<>> ELSE <<Min(S)>> \o SetToSeq(S \ {Min(S)})

RECURSIVE SumSeq(_)
SumSeq(s) == IF s = <<>> THEN 0 ELSE Head(s) + SumSeq(Tail(s))

Reverse(s) == [i \in 1..Len(s) |-> s[Len(s) + 1 - i]]

NoDup(s) == \A i, j \in DOMAIN s : i # j => s[i] # s[j]

----------------------------------------------------------------------------
(* mathutils.Vector *)

Vec(x, y) == <<x, y, 0>>

VAdd(a, b) == <<a[1] + b[1], a[2] + b[2], a[3] + b[3]>>

VSub(a, b) == <<a[1] - b[1], a[2] - b[2], a[3] - b[3]>>

VDot(a, b) == a[1] * b[1] + a[2] * b[2] + a[3] * b[3]

VScale(k, a) == <<k * a[1], k * a[2], k * a[3]>>

\* division of a vector by a scalar, rounded down to the unit of length
VDiv(a, k) == <<a[1] \div k, a[2] \div k, a[3] \div k>>

Dist2(a, b) == VDot(VSub(a, b), VSub(a, b))

\* z component of (b - a) x (c - a)
Orient(a, b, c) ==
    (b[1] - a[1]) * (c[2] - a[2]) - (b[2] - a[2]) * (c[1] - a[1])

----------------------------------------------------------------------------
(* bmesh queries *)

NoMesh == [verts |-> {}, co |-> <<>>, vsel |-> <<>>, next |-> 0,
           edges |-> <<>>, faces |-> <<>>]

Cyc(f, i) == f[((i - 1) % Len(f)) + 1]

FaceEdges(f) == {{f[i], Cyc(f, i + 1)} : i \in 1..Len(f)}

HasEdge(m, e) == \E i \in DOMAIN m.edges : m.edges[i].verts = e

\* face.verts as a set / vert.link_faces / edge.link_faces
link_faces(m, v) == {i \in DOMAIN m.faces : v \in Range(m.faces[i].verts)}

edge_faces(m, e) == {i \in DOMAIN m.faces : e \in FaceEdges(m.faces[i].verts)}

\* edge.is_boundary: the edge has exactly one face
edge_is_boundary(m, e) == Cardinality(edge_faces(m, e)) = 1

\* vert.is_boundary: the vertex is on a boundary edge
vert_is_boundary(m, v) ==
    \E i \in DOMAIN m.edges :
        v \in m.edges[i].verts /\ edge_is_boundary(m, m.edges[i].verts)

\* vert.link_edges, in mesh edge order
link_edges(m, v) == SelectSeq(m.edges, LAMBDA e : v \in e.verts)

other_vert(e, v) == CHOOSE w \in e : w # v

\* edge.calc_length(), squared
calc_length2(m, e) == Dist2(m.co[Min(e)], m.co[Max(e)])

----------------------------------------------------------------------------
(* bmesh structure edits shared by the operators *)

RECURSIVE SeqMinus(_, _, _)
\* the sequence s without the entries whose index (counted from k) is in I
SeqMinus(s, I, k) ==
    IF s = <<>> THEN <<>>
    ELSE (IF k \in I THEN <<>> ELSE <<Head(s)>>) \o SeqMinus(Tail(s), I, k + 1)

RECURSIVE DedupLinear(_)
DedupLinear(g) ==
    IF Len(g) <= 1 THEN g
    ELSE IF g[1] = g[2] THEN DedupLinear(Tail(g))
    ELSE <<g[1]>> \o DedupLinear(Tail(g))

\* a face cycle without repeated consecutive vertices
Squash(g) ==
    LET d == DedupLinear(g)
    IN  IF Len(d) > 1 /\ d[1] = d[Len(d)] THEN SubSeq(d, 1, Len(d) - 1) ELSE d

RECURSIVE DedupEdges(_, _)
\* drops the edges that have lost an endpoint and the doubles of earlier edges
DedupEdges(es, seen) ==
    IF es = <<>> THEN <<>>
    ELSE LET e == Head(es)
         IN  IF Cardinality(e.verts) < 2 \/ e.verts \in seen
             THEN DedupEdges(Tail(es), seen)
             ELSE <<e>> \o DedupEdges(Tail(es), seen \cup {e.verts})

RECURSIVE AddEdges(_, _, _)
\* appends the edges of new that the mesh does not have yet
AddEdges(es, new, s) ==
    IF new = <<>> THEN es
    ELSE AddEdges(IF \E i \in DOMAIN es : es[i].verts = Head(new)
                  THEN es
                  ELSE Append(es, [verts |-> Head(new), select |-> s]),
                  Tail(new), s)

\* bm.verts.remove(vert) for every vert of vs: the vertices go with their edges and faces
remove_verts(m, vs) ==
    [verts |-> m.verts \ vs,
     co    |-> [x \in m.verts \ vs |-> m.co[x]],
     vsel  |-> [x \in m.verts \ vs |-> m.vsel[x]],
     next  |-> m.next,
     edges |-> SelectSeq(m.edges, LAMBDA e : e.verts \cap vs = {}),
     faces |-> SelectSeq(m.faces, LAMBDA f : Range(f.verts) \cap vs = {})]

\* bm.faces.remove(face) for the faces with index in I
remove_faces(m, I) == [m EXCEPT !.faces = SeqMinus(m.faces, I, 1)]

\* vertex gone is merged into vertex keep, which ends at position pos
merge_vert(m, keep, gone, pos) ==
    LET ren(x) == IF x = gone THEN keep ELSE x
        fs == [i \in DOMAIN m.faces |->
                 [m.faces[i] EXCEPT
                    !.verts = Squash([k \in DOMAIN m.faces[i].verts |->
                                        ren(m.faces[i].verts[k])])]]
        es == [i \in DOMAIN m.edges |->
                 [m.edges[i] EXCEPT !.verts = {ren(x) : x \in m.edges[i].verts}]]
    IN  [verts |-> m.verts \ {gone},
         co    |-> [x \in m.verts \ {gone} |-> IF x = keep THEN pos ELSE m.co[x]],
         vsel  |-> [x \in m.verts \ {gone} |->
                      IF x = keep THEN m.vsel[keep] \/ m.vsel[gone] ELSE m.vsel[x]],
         next  |-> m.next,
         edges |-> DedupEdges(es, {}),
         faces |-> SelectSeq(fs, LAMBDA f : Cardinality(Range(f.verts)) >= 3)]

----------------------------------------------------------------------------
(* bmesh.ops.subdivide_edges(bm, edges=..., cuts=1) *)

\* one cut: the midpoint vertex splits the edge and enters the cycle of its faces
subdivide_edge(m, e) ==
    LET a == Min(e)
        b == Max(e)
        n == m.next
        i == CHOOSE k \in DOMAIN m.edges : m.edges[k].verts = e
        s == m.edges[i].select
        split(f) ==
            IF e \in FaceEdges(f)
            THEN LET k == CHOOSE k \in 1..Len(f) : {f[k], Cyc(f, k + 1)} = e
                 IN  SubSeq(f, 1, k) \o <<n>> \o SubSeq(f, k + 1, Len(f))
            ELSE f
    IN  [verts |-> m.verts \cup {n},
         co    |-> (n :> VDiv(VAdd(m.co[a], m.co[b]), 2)) @@ m.co,
         vsel  |-> (n :> s) @@ m.vsel,
         next  |-> n + 1,
         edges |-> Append([m.edges EXCEPT ![i].verts = {a, n}],
                          [verts |-> {n, b}, select |-> s]),
         faces |-> [k \in DOMAIN m.faces |->
                      [m.faces[k] EXCEPT !.verts = split(@)]]]

RECURSIVE subdivide_edges(_, _)
subdivide_edges(m, es) ==
    IF es = <<>> THEN m ELSE subdivide_edges(subdivide_edge(m, Head(es)), Tail(es))

----------------------------------------------------------------------------
(* bmesh.ops.triangulate(bm, faces=bm.faces) *)

RotateTo(f, k) == [i \in 1..Len(f) |-> Cyc(f, k + i - 1)]

\* the fan from corner k is a triangulation of the polygon: its triangles all
\* turn the same way, none is flat, and no diagonal doubles an edge of the mesh
FanOK(m, f, k) ==
    LET g == RotateTo(f, k)
        o(j) == Orient(m.co[g[1]], m.co[g[j + 1]], m.co[g[j + 2]])
    IN  /\ \/ \A j \in 1..Len(g) - 2 : o(j) > 0
           \/ \A j \in 1..Len(g) - 2 : o(j) < 0
        /\ \A j \in 1..Len(g) - 3 : ~HasEdge(m, {g[1], g[j + 2]})

FanApex(m, f) ==
    IF \E k \in 1..Len(f) : FanOK(m, f, k)
    THEN Min({k \in 1..Len(f) : FanOK(m, f, k)})
    ELSE 1

RECURSIVE TriFaces(_, _, _)
TriFaces(m, fs, acc) ==
    IF fs = <<>> THEN acc
    ELSE LET f == Head(fs)
         IN  IF Len(f.verts) <= 3
             THEN TriFaces(m, Tail(fs), [acc EXCEPT !.faces = Append(@, f)])
             ELSE LET g == RotateTo(f.verts, FanApex(m, f.verts))
                      tris == [j \in 1..Len(g) - 2 |->
                                 [verts |-> <<g[1], g[j + 1], g[j + 2]>>,
                                  select |-> f.select]]
                      diags == [j \in 1..Len(g) - 3 |-> {g[1], g[j + 2]}]
                  IN  TriFaces(m, Tail(fs),
                               [faces |-> acc.faces \o tris,
                                edges |-> AddEdges(acc.edges, diags, f.select)])

triangulate(m) ==
    LET r == TriFaces(m, m.faces, [faces |-> <<>>, edges |-> m.edges])
    IN  [m EXCEPT !.faces = r.faces, !.edges = r.edges]

----------------------------------------------------------------------------
(* bmesh.ops.dissolve_verts(bm, verts=...) *)

\* the cycle of face f from the vertex after v to the vertex before v
PathAt(f, v) ==
    LET k == CHOOSE k \in 1..Len(f) : f[k] = v
    IN  [i \in 1..Len(f) - 1 |-> Cyc(f, k + i)]

RECURSIVE Chain(_, _, _, _)
\* the faces I around v joined where they share an edge at v; <<>> when they
\* are not one fan
Chain(m, v, c, I) ==
    IF I = {} THEN c
    ELSE LET next == {i \in I :
                        LET p == PathAt(m.faces[i].verts, v)
                        IN  p[1] = c[Len(c)] \/ p[Len(p)] = c[Len(c)]}
         IN  IF next = {} THEN <<>>
             ELSE LET i == Min(next)
                      p == PathAt(m.faces[i].verts, v)
                      q == IF p[1] = c[Len(c)] THEN p ELSE Reverse(p)
                  IN  Chain(m, v, c \o Tail(q), I \ {i})

\* the faces around v become one face without v; a vertex whose faces cannot
\* be joined is left as it is
dissolve_vert(m, v) ==
    LET I == link_faces(m, v)
    IN  IF I = {} THEN remove_verts(m, {v})
        ELSE LET starts == {i \in I :
                              ~\E j \in I \ {i} :
                                 PathAt(m.faces[j].verts, v)[Len(m.faces[j].verts) - 1]
                                   = PathAt(m.faces[i].verts, v)[1]}
                 first == IF starts = {} THEN Min(I) ELSE Min(starts)
                 c == Chain(m, v, PathAt(m.faces[first].verts, v), I \ {first})
                 closed == Len(c) > 1 /\ c[1] = c[Len(c)]
                 cyc == IF closed THEN SubSeq(c, 1, Len(c) - 1) ELSE c
                 sel == \E i \in I : m.faces[i].select
                 rest == remove_verts(m, {v})
             IN  IF c = <<>> \/ ~NoDup(cyc) THEN m
                 ELSE IF Len(cyc) < 3 THEN rest
                 ELSE [rest EXCEPT
                         !.edges = AddEdges(@, <<{cyc[1], cyc[Len(cyc)]}>>, sel),
                         !.faces = Append(@, [verts |-> cyc, select |-> sel])]

RECURSIVE dissolve_verts(_, _)
dissolve_verts(m, vs) ==
    IF vs = <<>> THEN m
    ELSE dissolve_verts(IF Head(vs) \in m.verts THEN dissolve_vert(m, Head(vs)) ELSE m,
                        Tail(vs))

----------------------------------------------------------------------------
(* bmesh.ops.collapse(bm, edges=...) *)

RECURSIVE collapse_edges(_, _)
\* every edge collapses to its centre; es is a sequence of vertex pairs
collapse_edges(m, es) ==
    IF es = <<>> THEN m
    ELSE LET e == Head(es)
         IN  IF Cardinality(e) < 2 THEN collapse_edges(m, Tail(es))
             ELSE LET a == Min(e)
                      b == Max(e)
                      mid == VDiv(VAdd(m.co[a], m.co[b]), 2)
                      t == Tail(es)
                  IN  collapse_edges(
                          merge_vert(m, a, b, mid),
                          [i \in DOMAIN t |->
                             {IF x = b THEN a ELSE x : x \in t[i]}])

----------------------------------------------------------------------------
(* bmesh.ops.beautify_fill(bm, faces=bm.faces, method="ANGLE") and          *)
(* bmesh.ops.join_triangles(bm, faces=bm.faces, ...)                        *)

Third(f, e) == CHOOSE x \in Range(f) : x \notin e

\* edge i lies between two triangles
BetweenTriangles(m, i) ==
    LET e == m.edges[i].verts
        F == edge_faces(m, e)
    IN  /\ Cardinality(F) = 2
        /\ \A k \in F : Len(m.faces[k].verts) = 3 /\ NoDup(m.faces[k].verts)
        /\ Third(m.faces[Min(F)].verts, e) # Third(m.faces[Max(F)].verts, e)

\* the quad the two triangles of edge i make, as the cycle c, x, d, y with
\* the edge {x, y} as one diagonal and {c, d} as the other
QuadOf(m, i) ==
    LET e == m.edges[i].verts
        F == edge_faces(m, e)
        f1 == m.faces[Min(F)].verts
        c == Third(f1, e)
        d == Third(m.faces[Max(F)].verts, e)
        g == RotateTo(f1, CHOOSE k \in 1..3 : f1[k] = c)
    IN  <<c, g[2], d, g[3]>>

\* rotating edge i improves the pair: the quad is strictly convex and its
\* other diagonal is strictly shorter
Flippable(m, i) ==
    /\ BetweenTriangles(m, i)
    /\ LET q == QuadOf(m, i)
           c == m.co[q[1]]
           x == m.co[q[2]]
           d == m.co[q[3]]
           y == m.co[q[4]]
       IN  /\ ~HasEdge(m, {q[1], q[3]})
           /\ Orient(c, d, x) * Orient(c, d, y) < 0
           /\ Orient(x, y, c) * Orient(x, y, d) < 0
           /\ Dist2(c, d) < Dist2(x, y)

flip_edge(m, i) ==
    LET q == QuadOf(m, i)
        F == edge_faces(m, m.edges[i].verts)
        s == m.faces[Min(F)].select /\ m.faces[Max(F)].select
    IN  [m EXCEPT
           !.edges[i].verts = {q[1], q[3]},
           !.faces = SeqMinus(@, F, 1)
                       \o <<[verts |-> <<q[1], q[2], q[3]>>, select |-> s],
                            [verts |-> <<q[1], q[3], q[4]>>, select |-> s]>>]

RECURSIVE beautify_fill(_)
beautify_fill(m) ==
    IF \E i \in DOMAIN m.edges : Flippable(m, i)
    THEN beautify_fill(flip_edge(m, Min({i \in DOMAIN m.edges : Flippable(m, i)})))
    ELSE m

join_pair(m, i) ==
    LET q == QuadOf(m, i)
        F == edge_faces(m, m.edges[i].verts)
        s == m.faces[Min(F)].select /\ m.faces[Max(F)].select
    IN  [m EXCEPT
           !.edges = SeqMinus(@, {i}, 1),
           !.faces = Append(SeqMinus(@, F, 1), [verts |-> q, select |-> s])]

RECURSIVE join_triangles(_)
join_triangles(m) ==
    IF \E i \in DOMAIN m.edges : BetweenTriangles(m, i)
    THEN join_triangles(join_pair(m, Min({i \in DOMAIN m.edges : BetweenTriangles(m, i)})))
    ELSE m

----------------------------------------------------------------------------
(* bm.from_mesh(mesh) into a mesh that already has geometry, and           *)
(* bmesh.ops.remove_doubles(bm, verts=..., dist=...)                        *)

\* the geometry of d is added to m under fresh vertex ids
from_mesh(m, d) ==
    LET off == m.next
        vs == {x + off : x \in d.verts}
    IN  [verts |-> m.verts \cup vs,
         co    |-> [x \in m.verts \cup vs |->
                      IF x \in m.verts THEN m.co[x] ELSE d.co[x - off]],
         vsel  |-> [x \in m.verts \cup vs |->
                      IF x \in m.verts THEN m.vsel[x] ELSE d.vsel[x - off]],
         next  |-> off + d.next,
         edges |-> m.edges \o
                   [i \in DOMAIN d.edges |->
                      [verts |-> {x + off : x \in d.edges[i].verts},
                       select |-> d.edges[i].select]],
         faces |-> m.faces \o
                   [i \in DOMAIN d.faces |->
                      [verts |-> [k \in DOMAIN d.faces[i].verts |->
                                    d.faces[i].verts[k] + off],
                       select |-> d.faces[i].select]]]

RECURSIVE MergeAll(_, _, _)
MergeAll(m, keep, gone) ==
    IF gone = <<>> THEN m
    ELSE MergeAll(merge_vert(m, keep, Head(gone), m.co[keep]), keep, Tail(gone))

RECURSIVE RemoveDoubles(_, _, _, _)
\* every vertex of vs, in order, takes the later vertices of vs within dist;
\* the result is the mesh and the set of pairs <<kept, merged>>
RemoveDoubles(m, vs, dist, pairs) ==
    IF vs = <<>> THEN [mesh |-> m, pairs |-> pairs]
    ELSE LET v == Head(vs)
             near == SelectSeq(Tail(vs),
                               LAMBDA w : Dist2(m.co[v], m.co[w]) <= dist * dist)
             far == SelectSeq(Tail(vs),
                              LAMBDA w : Dist2(m.co[v], m.co[w]) > dist * dist)
         IN  RemoveDoubles(MergeAll(m, v, near), far, dist,
                           pairs \cup {<<v, near[i]>> : i \in DOMAIN near})

remove_doubles(m, vs, dist) == RemoveDoubles(m, SetToSeq(vs), dist, {})

----------------------------------------------------------------------------
(* BoundaryAlignedRemesher.__init__ *)

\* lines 43-47: the working mesh loses the vertices none of whose faces is selected
region_of(data) ==
    remove_verts(data,
        {v \in data.verts : \A i \in link_faces(data, v) : ~data.faces[i].select})

\* lines 49-57: the copy loses the vertices all of whose faces are selected,
\* then the selected faces
remainder_of(data) ==
    LET m == remove_verts(data,
                 {v \in data.verts : \A i \in link_faces(data, v) : data.faces[i].select})
    IN  remove_faces(m, {i \in DOMAIN m.faces : m.faces[i].select})

\* lines 66-71: (center, vec) of every boundary edge, in mesh edge order; the
\* centre is kept doubled and the direction is kept unnormalized
make_boundary_data(m) ==
    LET bs == SelectSeq(m.edges, LAMBDA e : edge_is_boundary(m, e.verts))
    IN  [i \in DOMAIN bs |->
           [center2 |-> VAdd(m.co[Min(bs[i].verts)], m.co[Max(bs[i].verts)]),
            vec     |-> VSub(m.co[Min(bs[i].verts)], m.co[Max(bs[i].verts)])]]

\* BVHTree.FromBMesh(bm): the points of the grid that lie on a face of the mesh
InTriangle(p, a, b, c) ==
    /\ \/ Orient(a, b, p) >= 0 /\ Orient(b, c, p) >= 0 /\ Orient(c, a, p) >= 0
       \/ Orient(a, b, p) <= 0 /\ Orient(b, c, p) <= 0 /\ Orient(c, a, p) <= 0
    /\ \A k \in 1..2 : /\ p[k] >= Min({a[k], b[k], c[k]})
                       /\ p[k] <= Max({a[k], b[k], c[k]})

OnFace(m, f, p) ==
    \E j \in 1..Len(f) - 2 : InTriangle(p, m.co[f[1]], m.co[f[j + 1]], m.co[f[j + 2]])

FromBMesh(m) ==
    {p \in {Vec(x, y) : x \in 0..GridMax, y \in 0..GridMax} :
        \E i \in DOMAIN m.faces : OnFace(m, m.faces[i].verts, p)}

----------------------------------------------------------------------------
(* BoundaryAlignedRemesher.nearest_boundary_vector *)

\* KDTree.find: the index of the nearest centre, 0 (None) on an empty tree
kd_find(bd, location) ==
    IF bd = <<>> THEN 0
    ELSE Min({i \in DOMAIN bd :
                \A j \in DOMAIN bd :
                    Dist2(VScale(2, location), bd[i].center2)
                      <= Dist2(VScale(2, location), bd[j].center2)})

nearest_boundary_vector(bd, location) == bd[kd_find(bd, location)].vec

----------------------------------------------------------------------------
(* BoundaryAlignedRemesher.enforce_edge_length *)

upper_length1000(L) == L * 1000 + L * BiasPerMille

lower_length1000(L) == L * 1000 - L * BiasPerMille

\* edge.calc_length() > upper_length
IsLong(m, e, L) ==
    IF upper_length1000(L) < 0 THEN TRUE
    ELSE calc_length2(m, e) * 1000000 > upper_length1000(L) * upper_length1000(L)

\* edge.calc_length() < lower_length
IsShort(m, e, L) ==
    IF lower_length1000(L) <= 0 THEN FALSE
    ELSE calc_length2(m, e) * 1000000 < lower_length1000(L) * lower_length1000(L)

EdgeVerts(es) == [i \in DOMAIN es |-> es[i].verts]

\* lines 93-96
long_edges(m, L) == EdgeVerts(SelectSeq(m.edges, LAMBDA e : IsLong(m, e.verts, L)))

\* lines 102-105
long_selected_edges(m, L) ==
    EdgeVerts(SelectSeq(m.edges, LAMBDA e : e.select /\ IsLong(m, e.verts, L)))

\* mutant: boundary vertices are not exempt
dissolve_list_any(m) ==
    SetToSeq({v \in m.verts : Len(link_edges(m, v)) < MinValence})

\* lines 110-114
dissolve_list(m) ==
    SetToSeq({v \in m.verts :
                Len(link_edges(m, v)) < MinValence /\ ~vert_is_boundary(m, v)})

\* mutant: the boundary vertices are not locked
initial_lock_empty(m) == {}

\* line 120
initial_lock(m) == {v \in m.verts : vert_is_boundary(m, v)}

\* mutant: the endpoints of a chosen edge are not locked
collapse_step_no_lock(m, L, e, acc) ==
    IF IsShort(m, e, L) /\ ~edge_is_boundary(m, e)
    THEN IF e \cap acc.lock_verts # {}
         THEN acc
         ELSE [acc EXCEPT !.collapse = Append(@, e)]
    ELSE acc

\* mutant: the endpoints are locked before the edge is looked at
collapse_step_lock_first(m, L, e, acc) ==
    IF IsShort(m, e, L) /\ ~edge_is_boundary(m, e)
    THEN IF e \cap acc.lock_verts # {}
         THEN [acc EXCEPT !.lock_verts = @ \cup e]
         ELSE [collapse |-> Append(acc.collapse, e),
               lock_verts |-> acc.lock_verts \cup e]
    ELSE acc

\* lines 124-129, one turn of the loop: acc is [collapse, lock_verts]
collapse_step(m, L, e, acc) ==
    IF IsShort(m, e, L) /\ ~edge_is_boundary(m, e)
    THEN IF e \cap acc.lock_verts # {}
         THEN acc
         ELSE [collapse |-> Append(acc.collapse, e),
               lock_verts |-> acc.lock_verts \cup e]
    ELSE acc

RECURSIVE collapse_loop(_, _, _, _)
\* lines 123-129
collapse_loop(m, L, es, acc) ==
    IF es = <<>> THEN acc
    ELSE collapse_loop(m, L, Tail(es), collapse_step(m, L, Head(es), acc))

\* lines 120-129
choose_collapse(m, L) ==
    collapse_loop(m, L, EdgeVerts(m.edges),
                  [collapse |-> <<>>, lock_verts |-> initial_lock(m)])

----------------------------------------------------------------------------
(* BoundaryAlignedRemesher.align_verts and reproject *)

\* vert.normal: the meshes lie in the plane z = 0
normal(m, v) == <<0, 0, 1>>

\* abs((n_loc - vert.co).normalized().dot(vec)) as the fraction num / den of
\* its square, up to the common factor |vec|^2; normalized() of the zero
\* vector is the zero vector
KeyOf(loc, c, vec) ==
    LET d == VSub(loc, c)
    IN  [loc |-> loc,
         num |-> VDot(d, vec) * VDot(d, vec),
         den |-> IF VDot(d, d) = 0 THEN 1 ELSE VDot(d, d)]

KeyLE(a, b) == a.num * b.den <= b.num * a.den

RECURSIVE InsertSorted(_, _)
InsertSorted(acc, x) ==
    IF acc = <<>> THEN <<x>>
    ELSE IF KeyLE(Head(acc), x) THEN <<Head(acc)>> \o InsertSorted(Tail(acc), x)
    ELSE <<x>> \o acc

RECURSIVE SortKeys(_, _)
SortKeys(s, acc) ==
    IF s = <<>> THEN acc ELSE SortKeys(Tail(s), InsertSorted(acc, Head(s)))

\* sorted(neighbor_locations, key=...): ascending and stable
sorted_locations(locs, c, vec) ==
    LET ks == SortKeys([i \in DOMAIN locs |-> KeyOf(locs[i], c, vec)], <<>>)
    IN  [i \in DOMAIN ks |-> ks[i].loc]

\* mutant: the index is wrapped by its magnitude
py_mod_magnitude(i, le) == (IF i < 0 THEN -i ELSE i) % le

\* Python's i % le for le > 0: the result is in 0..le-1 also for i < 0
py_mod(i, le) == i % le

RECURSIVE VSum(_)
VSum(s) == IF s = <<>> THEN <<0, 0, 0>> ELSE VAdd(Head(s), VSum(Tail(s)))

\* lines 150-161 for one vertex
align_vert(m, v, bd, r) ==
    LET vec == nearest_boundary_vector(bd, m.co[v])
        les == link_edges(m, v)
        neighbor_locations == [i \in DOMAIN les |-> m.co[other_vert(les[i].verts, v)]]
        best_locations == sorted_locations(neighbor_locations, m.co[v], vec)
        le == Len(les)
        picks == [k \in DOMAIN r |-> best_locations[py_mod(r[k], le) + 1]]
        sum == VAdd(m.co[v], VSum(picks))
        avg == VDiv(sum, Len(r) + 1)
        d == VSub(avg, m.co[v])
        t == VSub(d, VScale(VDot(d, normal(m, v)), normal(m, v)))
    IN  [vert |-> v, old |-> m.co[v], vec |-> vec, le |-> le, rule |-> r,
         neighbors |-> neighbor_locations, best |-> best_locations,
         picks |-> picks, sum |-> sum, avg |-> avg, co |-> VAdd(m.co[v], t)]

RECURSIVE align_loop(_, _, _, _, _)
\* lines 141-161: the vertices are moved one after the other
align_loop(m, vs, bd, r, log) ==
    IF vs = <<>> THEN [mesh |-> m, log |-> log, error |-> "none"]
    ELSE LET v == Head(vs)
         IN  IF vert_is_boundary(m, v) THEN align_loop(m, Tail(vs), bd, r, log)
             ELSE IF kd_find(bd, m.co[v]) = 0
                  THEN [mesh |-> m, log |-> log, error |-> "TypeError"]
             ELSE IF Len(link_edges(m, v)) = 0
                  THEN [mesh |-> m, log |-> log, error |-> "ZeroDivisionError"]
             ELSE LET a == align_vert(m, v, bd, r)
                  IN  align_loop([m EXCEPT !.co[v] = a.co], Tail(vs), bd, r,
                                 Append(log, a))

\* BVHTree.find_nearest(co): the nearest point of the snapshot, <<>> for None
find_nearest(pts, p) ==
    IF pts = {} THEN <<>>
    ELSE CHOOSE q \in pts : \A q2 \in pts : Dist2(q, p) <= Dist2(q2, p)

\* line 168: the vertices reproject leaves alone
reproject_skips(m, v) == vert_is_boundary(m, v)

\* lines 167-172
reproject(m, pts) ==
    [m EXCEPT !.co = [v \in m.verts |->
                        IF reproject_skips(m, v) \/ find_nearest(pts, m.co[v]) = <<>>
                        THEN m.co[v]
                        ELSE find_nearest(pts, m.co[v])]]

\* lines 195-198
select_all(m) ==
    [m EXCEPT !.vsel = [v \in m.verts |-> TRUE],
              !.faces = [i \in DOMAIN m.faces |-> [m.faces[i] EXCEPT !.select = TRUE]]]

\* line 204: the vertices handed to remove_doubles
weld_verts(m) == {v \in m.verts : m.vsel[v]}

----------------------------------------------------------------------------
(* Input meshes *)

\* a mesh with vertices 1..Len(cos) at the positions cos, the faces fs and
\* the faces with index in sel selected (their edges and vertices with them)
MakeMesh(cos, fs, sel) ==
    LET n == Len(cos)
        allEdges == UNION {FaceEdges(fs[i]) : i \in DOMAIN fs}
        selEdges == UNION {FaceEdges(fs[i]) : i \in sel}
        selVerts == UNION {Range(fs[i]) : i \in sel}
        ordered == SetToSeq({Min(e) * (n + 1) + Max(e) : e \in allEdges})
    IN  [verts |-> 1..n,
         co    |-> cos,
         vsel  |-> [v \in 1..n |-> v \in selVerts],
         next  |-> n + 1,
         edges |-> [i \in DOMAIN ordered |->
                      LET e == {ordered[i] \div (n + 1), ordered[i] % (n + 1)}
                      IN  [verts |-> e, select |-> e \in selEdges]],
         faces |-> [i \in DOMAIN fs |-> [verts |-> fs[i], select |-> i \in sel]]]

\* a hexagon around one interior vertex (7)
FanCos == <<Vec(2, 0), Vec(4, 1), Vec(4, 3), Vec(2, 4), Vec(0, 3), Vec(0, 1), Vec(2, 2)>>
FanFaces == <<<<7, 1, 2>>, <<7, 2, 3>>, <<7, 3, 4>>, <<7, 4, 5>>, <<7, 5, 6>>, <<7, 6, 1>>>>

\* a hexagon around two interior vertices (7 and 8) joined by a short edge
TwinCos == <<Vec(2, 0), Vec(4, 1), Vec(4, 3), Vec(2, 4), Vec(0, 3), Vec(0, 1),
             Vec(1, 2), Vec(3, 2)>>
TwinFaces == <<<<7, 8, 4>>, <<7, 4, 5>>, <<7, 5, 6>>, <<7, 6, 1>>, <<7, 1, 8>>,
               <<8, 2, 3>>, <<8, 3, 4>>, <<8, 1, 2>>>>

\* a strip of three triangles
StripCos == <<Vec(0, 0), Vec(2, 0), Vec(4, 0), Vec(0, 2), Vec(2, 2)>>
StripFaces == <<<<1, 2, 4>>, <<2, 5, 4>>, <<2, 3, 5>>>>

\* a closed surface: a tetrahedron pressed flat
TetraCos == <<Vec(0, 0), Vec(4, 0), Vec(2, 4), Vec(2, 1)>>
TetraFaces == <<<<1, 2, 4>>, <<2, 3, 4>>, <<3, 1, 4>>, <<1, 3, 2>>>>

\* a square of four triangles around an interior vertex of valence 4
SquareCos == <<Vec(0, 0), Vec(4, 0), Vec(4, 4), Vec(0, 4), Vec(2, 2)>>
SquareFaces == <<<<5, 1, 2>>, <<5, 2, 3>>, <<5, 3, 4>>, <<5, 4, 1>>>>

ObjectInputs ==
    {MakeMesh(FanCos, FanFaces, {}), MakeMesh(TwinCos, TwinFaces, {}),
     MakeMesh(StripCos, StripFaces, {}), MakeMesh(TetraCos, TetraFaces, {}),
     MakeMesh(SquareCos, SquareFaces, {})}

EditInputs ==
    {MakeMesh(StripCos, StripFaces, sel) : sel \in SUBSET (1..3)}
    \cup {MakeMesh(TwinCos, TwinFaces, sel) : sel \in {1..8, 1..5, {6, 7, 8}}}
    \cup {MakeMesh(FanCos, FanFaces, sel) : sel \in {1..6, 1..3}}
    \cup {MakeMesh(TetraCos, TetraFaces, 1..4)}

----------------------------------------------------------------------------
(* The run: Remesher.execute calls BoundaryAlignedRemesher(obj) and remesh *)

Constructed(data, e, L, n, q) ==
    /\ obj_data = data
    /\ edit_mode = e
    /\ bm = IF e THEN region_of(data) ELSE data
    /\ bm1 = IF e THEN remainder_of(data) ELSE NoMesh
    /\ bvh = FromBMesh(bm)
    /\ boundary_data = make_boundary_data(bm)
    /\ edge_length = L
    /\ iterations = n
    /\ quads = q
    /\ it = 0
    /\ lock_verts = {}
    /\ collapse = <<>>
    /\ error = "none"
    /\ align_log = <<>>
    /\ welded = {}
    /\ input = [data |-> data, bm |-> bm, bm1 |-> bm1]

Init ==
    \E e \in BOOLEAN, L \in 0..MaxLength, n \in 0..MaxIter, q \in BOOLEAN :
        \E data \in (IF e THEN EditInputs ELSE ObjectInputs) :
            /\ pc = "remesh"
            /\ rule = <<>>
            /\ trace = <<>>
            /\ Constructed(data, e, L, n, q)

Called(op) == trace' = Append(trace, op)

\* mutant: the loop runs once more
loop_continues_once_more(i, n) == i <= n

\* line 185: range(iterations) has a next value after i of them
loop_continues(i, n) == i < n

\* the edges the two meshes shared at construction, as pairs of end points
shared_segments ==
    {<<input.bm.co[Min(e)], input.bm.co[Max(e)]>> :
        e \in {x \in Range(EdgeVerts(input.bm.edges)) :
                 x \in Range(EdgeVerts(input.bm1.edges))}}

OnSegment(p, a, b) ==
    /\ Orient(a, b, p) = 0
    /\ \A k \in 1..2 : p[k] >= Min({a[k], b[k]}) /\ p[k] <= Max({a[k], b[k]})

\* vertex v of mesh m is a boundary vertex of m on the border the two meshes share
on_shared_border(m, v) ==
    /\ vert_is_boundary(m, v)
    /\ \E g \in shared_segments : OnSegment(m.co[v], g[1], g[2])

\* lines 177-183
Start ==
    /\ pc = "remesh"
    /\ rule' = IF quads THEN <<-1, -2, 0, 1>> ELSE <<0, 1, 2, 3>>
    /\ pc' = IF loop_continues(it, iterations) THEN "subdivide" ELSE "join"
    /\ UNCHANGED <<obj_data, edit_mode, bm, bm1, bvh, boundary_data, edge_length,
                   iterations, quads, it, lock_verts, collapse, error, trace,
                   align_log, welded, input>>

\* lines 93-98
SubdivideLongEdges ==
    /\ pc = "subdivide"
    /\ bm.next + Len(long_edges(bm, edge_length)) <= MaxVerts + 1
    /\ bm' = subdivide_edges(bm, long_edges(bm, edge_length))
    /\ Called("subdivide_long_edges")
    /\ pc' = "triangulate"
    /\ UNCHANGED <<obj_data, edit_mode, bm1, bvh, boundary_data, edge_length,
                   iterations, quads, rule, it, lock_verts, collapse, error,
                   align_log, welded, input>>

\* line 99
Triangulate ==
    /\ pc = "triangulate"
    /\ bm' = triangulate(bm)
    /\ Called("triangulate")
    /\ pc' = "subdivide_remainder"
    /\ UNCHANGED <<obj_data, edit_mode, bm1, bvh, boundary_data, edge_length,
                   iterations, quads, rule, it, lock_verts, collapse, error,
                   align_log, welded, input>>

\* lines 101-107
SubdivideRemainder ==
    /\ pc = "subdivide_remainder"
    /\ IF edit_mode
       THEN /\ bm1.next + Len(long_selected_edges(bm1, edge_length)) <= MaxVerts + 1
            /\ bm1' = subdivide_edges(bm1, long_selected_edges(bm1, edge_length))
            /\ Called("subdivide_remainder")
       ELSE UNCHANGED <<bm1, trace>>
    /\ pc' = "dissolve"
    /\ UNCHANGED <<obj_data, edit_mode, bm, bvh, boundary_data, edge_length,
                   iterations, quads, rule, it, lock_verts, collapse, error,
                   align_log, welded, input>>

\* lines 110-116
Dissolve ==
    /\ pc = "dissolve"
    /\ bm' = dissolve_verts(bm, dissolve_list(bm))
    /\ Called("dissolve_low_valence_interior_vertices")
    /\ pc' = "triangulate2"
    /\ UNCHANGED <<obj_data, edit_mode, bm1, bvh, boundary_data, edge_length,
                   iterations, quads, rule, it, lock_verts, collapse, error,
                   align_log, welded, input>>

\* line 117
Triangulate2 ==
    /\ pc = "triangulate2"
    /\ bm' = triangulate(bm)
    /\ Called("triangulate")
    /\ pc' = "choose"
    /\ UNCHANGED <<obj_data, edit_mode, bm1, bvh, boundary_data, edge_length,
                   iterations, quads, rule, it, lock_verts, collapse, error,
                   align_log, welded, input>>

\* lines 120-129
ChooseCollapse ==
    /\ pc = "choose"
    /\ collapse' = choose_collapse(bm, edge_length).collapse
    /\ lock_verts' = choose_collapse(bm, edge_length).lock_verts
    /\ pc' = "collapse"
    /\ UNCHANGED <<obj_data, edit_mode, bm, bm1, bvh, boundary_data, edge_length,
                   iterations, quads, rule, it, error, trace, align_log, welded,
                   input>>

\* line 131
Collapse ==
    /\ pc = "collapse"
    /\ bm' = collapse_edges(bm, collapse)
    /\ Called("collapse_short_edges")
    /\ pc' = "beautify"
    /\ UNCHANGED <<obj_data, edit_mode, bm1, bvh, boundary_data, edge_length,
                   iterations, quads, rule, it, lock_verts, collapse, error,
                   align_log, welded, input>>

\* line 132
Beautify ==
    /\ pc = "beautify"
    /\ bm' = beautify_fill(bm)
    /\ Called("beautify")
    /\ pc' = "align"
    /\ UNCHANGED <<obj_data, edit_mode, bm1, bvh, boundary_data, edge_length,
                   iterations, quads, rule, it, lock_verts, collapse, error,
                   align_log, welded, input>>

\* lines 141-161, to the end of the loop or to the exception that ends the run
AlignVerts ==
    /\ pc = "align"
    /\ LET r == align_loop(bm, SetToSeq(bm.verts), boundary_data, rule, <<>>)
       IN  /\ bm' = r.mesh
           /\ align_log' = r.log
           /\ error' = r.error
           /\ pc' = IF r.error = "none" THEN "reproject" ELSE "failed"
    /\ Called("align_vertex")
    /\ UNCHANGED <<obj_data, edit_mode, bm1, bvh, boundary_data, edge_length,
                   iterations, quads, rule, it, lock_verts, collapse, welded,
                   input>>

\* line 163
Reproject ==
    /\ pc = "reproject"
    /\ bm' = reproject(bm, bvh)
    /\ Called("reproject")
    /\ pc' = "reproject2"
    /\ UNCHANGED <<obj_data, edit_mode, bm1, bvh, boundary_data, edge_length,
                   iterations, quads, rule, it, lock_verts, collapse, error,
                   align_log, welded, input>>

\* line 188, and the loop of line 185
ReprojectAgain ==
    /\ pc = "reproject2"
    /\ bm' = reproject(bm, bvh)
    /\ Called("reproject")
    /\ it' = it + 1
    /\ pc' = IF loop_continues(it + 1, iterations) THEN "subdivide" ELSE "join"
    /\ UNCHANGED <<obj_data, edit_mode, bm1, bvh, boundary_data, edge_length,
                   iterations, quads, rule, lock_verts, collapse, error,
                   align_log, welded, input>>

\* lines 190-198
JoinTriangles ==
    /\ pc = "join"
    /\ IF quads
       THEN /\ bm' = select_all(join_triangles(bm))
            /\ Called("join_coplanar_triangle_pairs")
       ELSE /\ bm' = select_all(bm)
            /\ UNCHANGED trace
    /\ pc' = "stitch"
    /\ UNCHANGED <<obj_data, edit_mode, bm1, bvh, boundary_data, edge_length,
                   iterations, quads, rule, it, lock_verts, collapse, error,
                   align_log, welded, input>>

\* lines 200-204
Stitch ==
    /\ pc = "stitch"
    /\ IF bm1 # NoMesh
       THEN LET all == from_mesh(bm, bm1)
                r == remove_doubles(all, weld_verts(all), WeldDist)
                border(v) == IF v < bm.next
                             THEN on_shared_border(bm, v)
                             ELSE on_shared_border(bm1, v - bm.next)
            IN  /\ obj_data' = bm1
                /\ bm' = r.mesh
                /\ welded' = {[keep |-> p[1], gone |-> p[2],
                               keep_on_border |-> border(p[1]),
                               gone_on_border |-> border(p[2])] : p \in r.pairs}
                /\ Called("remove_doubles")
       ELSE UNCHANGED <<obj_data, bm, welded, trace>>
    /\ pc' = "write"
    /\ UNCHANGED <<edit_mode, bm1, bvh, boundary_data, edge_length, iterations,
                   quads, rule, it, lock_verts, collapse, error, align_log, input>>

\* lines 206-209
WriteBack ==
    /\ pc = "write"
    /\ obj_data' = bm
    /\ pc' = "done"
    /\ UNCHANGED <<edit_mode, bm, bm1, bvh, boundary_data, edge_length, iterations,
                   quads, rule, it, lock_verts, collapse, error, trace, align_log,
                   welded, input>>

Next ==
    \/ Start
    \/ SubdivideLongEdges
    \/ Triangulate
    \/ SubdivideRemainder
    \/ Dissolve
    \/ Triangulate2
    \/ ChooseCollapse
    \/ Collapse
    \/ Beautify
    \/ AlignVerts
    \/ Reproject
    \/ ReprojectAgain
    \/ JoinTriangles
    \/ Stitch
    \/ WriteBack

Spec == Init /\ [][Next]_vars

----------------------------------------------------------------------------
(* The collapse step on its own: enforce_edge_length has reached line 119   *)
(* with some triangle mesh, whose edges are in some order                   *)

RECURSIVE Orders(_)
\* all the orders a set can be iterated in
Orders(S) ==
    IF S = {} THEN {<<>>}
    ELSE UNION {{<<x>> \o o : o \in Orders(S \ {x})} : x \in S}

\* two places for each of four vertices: 1 and 2 near each other or not,
\* 3 and 4 near each other or not, the pairs near each other or not
NearFar == {<<Vec(0, 0), Vec(2, 0), Vec(2, 2), Vec(0, 2)>>,
            <<Vec(0, 0), Vec(2, 0), Vec(4, 2), Vec(0, 2)>>,
            <<Vec(0, 0), Vec(4, 0), Vec(2, 2), Vec(0, 2)>>,
            <<Vec(0, 0), Vec(2, 0), Vec(4, 4), Vec(2, 4)>>,
            <<Vec(0, 0), Vec(4, 0), Vec(4, 4), Vec(0, 4)>>,
            <<Vec(1, 1), Vec(2, 1), Vec(2, 2), Vec(1, 2)>>}

\* a tetrahedron, two triangles sharing an edge, one triangle
FourVertexFaces == {<<<<1, 2, 4>>, <<2, 3, 4>>, <<3, 1, 4>>, <<1, 3, 2>>>>,
                    <<<<1, 2, 3>>, <<1, 3, 4>>>>,
                    <<<<1, 2, 3>>>>}

\* a small tetrahedron beside two triangles sharing an edge
IslandsCos == <<Vec(1, 1), Vec(2, 1), Vec(2, 2), Vec(1, 2),
                Vec(0, 3), Vec(1, 3), Vec(1, 4), Vec(0, 4)>>
IslandsFaces == <<<<1, 2, 4>>, <<2, 3, 4>>, <<3, 1, 4>>, <<1, 3, 2>>,
                  <<5, 6, 7>>, <<5, 7, 8>>>>

Reordered(m, o) == [m EXCEPT !.edges = [i \in DOMAIN o |-> m.edges[o[i]]]]

\* the meshes of four vertices in every edge order, the larger one in its
\* own order and in the opposite order
InitCollapse ==
    \E L \in 2..MaxLength :
        \E m \in {MakeMesh(cos, fs, {}) : cos \in NearFar, fs \in FourVertexFaces}
                 \cup {MakeMesh(IslandsCos, IslandsFaces, {})} :
            \E o \in (IF Len(m.edges) <= 6
                      THEN Orders(DOMAIN m.edges)
                      ELSE {[i \in DOMAIN m.edges |-> i],
                            [i \in DOMAIN m.edges |-> Len(m.edges) + 1 - i]}) :
                /\ pc = "choose"
                /\ rule = <<0, 1, 2, 3>>
                /\ trace = <<"subdivide_long_edges", "triangulate",
                             "dissolve_low_valence_interior_vertices", "triangulate">>
                /\ Constructed(Reordered(m, o), FALSE, L, 1, FALSE)

NextCollapse ==
    \/ ChooseCollapse
    \/ Collapse

SpecCollapse == InitCollapse /\ [][NextCollapse]_vars

\* edge k of the working mesh is short and is not a boundary edge
Eligible(k) ==
    /\ IsShort(bm, bm.edges[k].verts, edge_length)
    /\ ~edge_is_boundary(bm, bm.edges[k].verts)

Chosen(k) == bm.edges[k].verts \in Range(collapse)

\* C1: the edges chosen for collapse in one call are pairwise vertex-disjoint:
\* no vertex is an endpoint of two of them.
C1_NoCollapseChaining ==
    \A i, j \in DOMAIN collapse : i # j => collapse[i] \cap collapse[j] = {}

\* two edges were chosen, and a short interior edge between them was passed over
C1_Witness ==
    /\ pc = "collapse"
    /\ Len(collapse) >= 2
    /\ \E k \in DOMAIN bm.edges :
           /\ Eligible(k) /\ ~Chosen(k)
           /\ \A v \in bm.edges[k].verts : ~vert_is_boundary(bm, v)

\* C8: when the collapse set has been computed, no chosen edge is a boundary
\* edge and no chosen edge has an endpoint that is a boundary vertex.
C8_NoBoundaryCollapse ==
    pc = "collapse" =>
        \A i \in DOMAIN collapse :
            /\ ~edge_is_boundary(bm, collapse[i])
            /\ \A v \in collapse[i] : ~vert_is_boundary(bm, v)

\* edges were chosen, and a short interior edge whose two endpoints are
\* boundary vertices was passed over
C8_Witness ==
    /\ pc = "collapse"
    /\ collapse # <<>>
    /\ \E k \in DOMAIN bm.edges :
           /\ Eligible(k) /\ ~Chosen(k)
           /\ \A v \in bm.edges[k].verts : vert_is_boundary(bm, v)

\* C10: when the collapse set has been computed, every short non-boundary edge
\* that was not chosen has an endpoint that is a boundary vertex or an endpoint
\* of a chosen edge that precedes it in mesh edge order.
C10_GreedyMaximal ==
    pc = "collapse" =>
        \A k \in DOMAIN bm.edges :
            (Eligible(k) /\ ~Chosen(k)) =>
                \E v \in bm.edges[k].verts :
                    \/ vert_is_boundary(bm, v)
                    \/ \E j \in 1..(k - 1) : Chosen(j) /\ v \in bm.edges[j].verts

\* a short interior edge was passed over although an edge after it was chosen
C10_Witness ==
    /\ pc = "collapse"
    /\ \E k \in DOMAIN bm.edges :
           /\ Eligible(k) /\ ~Chosen(k)
           /\ \E j \in DOMAIN bm.edges : j > k /\ Chosen(j)

----------------------------------------------------------------------------
(* The relaxation step on its own: remesh has reached line 187 with a fan   *)
(* of triangles around one vertex                                           *)

MaxValence == 5     \* the fans have 3..MaxValence triangles

RingCos == <<Vec(0, 0), Vec(2, 0), Vec(4, 0), Vec(4, 2),
             Vec(4, 4), Vec(2, 4), Vec(0, 4), Vec(0, 2)>>

CentreCos == {Vec(1, 1), Vec(2, 2), Vec(3, 1), Vec(2, 3)}

\* the fan around vertex n + 1 of the ring vertices 1..n at the places of
\* RingCos with index in R
FanMesh(R, c) ==
    LET ring == SetToSeq(R)
        n == Len(ring)
    IN  MakeMesh([i \in 1..(n + 1) |-> IF i <= n THEN RingCos[ring[i]] ELSE c],
                 [i \in 1..n |-> <<n + 1, i, (i % n) + 1>>], {})

\* two triangles back to back, whose three vertices have valence 2 and are
\* on no boundary, beside a triangle that has one
PillowMesh(c) ==
    MakeMesh(<<Vec(0, 0), Vec(4, 0), c, Vec(0, 4), Vec(2, 4), Vec(0, 2)>>,
             <<<<1, 2, 3>>, <<1, 3, 2>>, <<4, 5, 6>>>>, {})

InitAlign ==
    \E c \in CentreCos, q \in BOOLEAN :
      \E m \in {FanMesh(R, c) :
                  R \in {S \in SUBSET (1..8) :
                           Cardinality(S) >= 3 /\ Cardinality(S) <= MaxValence}}
               \cup {PillowMesh(c)} :
        /\ pc = "align"
        /\ rule = IF q THEN <<-1, -2, 0, 1>> ELSE <<0, 1, 2, 3>>
        /\ trace = <<"subdivide_long_edges", "triangulate",
                     "dissolve_low_valence_interior_vertices", "triangulate",
                     "collapse_short_edges", "beautify">>
        /\ Constructed(m, FALSE, 2, 1, q)

NextAlign ==
    \/ AlignVerts
    \/ Reproject
    \/ ReprojectAgain

SpecAlign == InitAlign /\ [][NextAlign]_vars

\* |cos| of the angle between p - c and vec is at most that between q - c and
\* vec (the cosine of a zero vector counts as 0)
AbsCosLE(p, q, c, vec) ==
    LET dp == VSub(p, c)
        dq == VSub(q, c)
        np == IF VDot(dp, dp) = 0 THEN 1 ELSE VDot(dp, dp)
        nq == IF VDot(dq, dq) = 0 THEN 1 ELSE VDot(dq, dq)
    IN  VDot(dp, vec) * VDot(dp, vec) * nq <= VDot(dq, vec) * VDot(dq, vec) * np

\* the rank a rule entry i stands for at valence n: the k in 0..n-1 that
\* differs from i by a multiple of n
RankOf(i, n) == CHOOSE k \in 0..(n - 1) : \E t \in -4..4 : i = t * n + k

Count(s, x) == Cardinality({i \in DOMAIN s : s[i] = x})

\* C9: for every vertex align_verts moves, with valence n >= 1: the ranking
\* holds the neighbour positions in ascending order of |cos| to the boundary
\* direction; rule entry i selects the neighbour at rank i mod n, in 0..n-1,
\* negative entries counting from the end; the average is the vertex position
\* plus the len(rule) selected positions, one per entry, over len(rule) + 1.
C9_RuleSelection ==
    \A a \in Range(align_log) :
        /\ a.le >= 1
        /\ Len(a.best) = a.le
        /\ \A x \in Range(a.neighbors) \cup Range(a.best) :
               Count(a.best, x) = Count(a.neighbors, x)
        /\ \A i, j \in DOMAIN a.best :
               i < j => AbsCosLE(a.best[i], a.best[j], a.old, a.vec)
        /\ \A k \in DOMAIN a.rule :
               /\ a.picks[k] = a.best[RankOf(a.rule[k], a.le) + 1]
               /\ (a.rule[k] >= 0 /\ a.rule[k] < a.le)
                     => a.picks[k] = a.best[a.rule[k] + 1]
               /\ (a.rule[k] < 0 /\ -a.rule[k] <= a.le)
                     => a.picks[k] = a.best[a.le + a.rule[k] + 1]
        /\ Len(a.picks) = Len(a.rule)
        /\ \A c \in 1..3 :
               /\ a.sum[c] = a.old[c] + SumSeq([k \in DOMAIN a.picks |-> a.picks[k][c]])
               /\ a.avg[c] * (Len(a.rule) + 1) <= a.sum[c]
               /\ a.sum[c] < (a.avg[c] + 1) * (Len(a.rule) + 1)

\* a vertex of valence 3 was moved with a rule of four entries, two of which
\* wrapped to the same rank
C9_Witness ==
    \E a \in Range(align_log) :
        /\ a.le < Len(a.rule)
        /\ \E k, l \in DOMAIN a.rule :
               /\ k # l
               /\ a.rule[k] # a.rule[l]
               /\ RankOf(a.rule[k], a.le) = RankOf(a.rule[l], a.le)

----------------------------------------------------------------------------
(* Claims about the whole run *)

\* the boundary vertices of the working mesh as constructed
InputBoundary == {v \in input.bm.verts : vert_is_boundary(input.bm, v)}

Kept(v) ==
    /\ v \in bm.verts
    /\ bm.co[v] = input.bm.co[v]
    /\ vert_is_boundary(bm, v)

Stitched == pc \in {"write", "done"} /\ bm1 # NoMesh

RECURSIVE Repeat(_, _)
Repeat(s, n) == IF n = 0 THEN <<>> ELSE s \o Repeat(s, n - 1)

AfterLoop ==
    (IF quads THEN <<"join_coplanar_triangle_pairs">> ELSE <<>>)
      \o (IF edit_mode THEN <<"remove_doubles">> ELSE <<>>)

C4_NoBoundaryBeforeMutation ==
    (pc = "failed" /\ boundary_data = <<>>) =>
        (error = "NoBoundary" /\ bm = input.bm)

InvalidParameters == edge_length <= 0 \/ iterations = 0

\* C5: a run with invalid parameters never enters the loop: it aborts with
\* InvalidParameters and the caller's mesh is never written.
C5_InvalidParametersAbort ==
    InvalidParameters =>
        /\ pc \in {"remesh", "failed"}
        /\ pc = "failed" => error = "InvalidParameters"
        /\ obj_data = input.data

FaceCycles(fs) == {fs[i].verts : i \in DOMAIN fs}

\* C6: in partial-region mode the region mesh holds exactly the selected
\* faces and the remainder exactly the unselected faces.
C6_DisjointSplit ==
    edit_mode =>
        /\ FaceCycles(input.bm.faces)
             = FaceCycles(SelectSeq(input.data.faces, LAMBDA f : f.select))
        /\ FaceCycles(input.bm1.faces)
             = FaceCycles(SelectSeq(input.data.faces, LAMBDA f : ~f.select))

\* C7: the weld fuses only vertices on the border the two meshes share.
C7_WeldOnlyBorder ==
    \A w \in welded : w.keep_on_border /\ w.gone_on_border

====
